---- MODULE Spec2Model ----
(***************************************************************************)
(* Model of the eth_project command line client (src/main.go,              *)
(* src/token/token.go): the check-balance, transfer-eth and transfer-token *)
(* handlers, the balance formatter and the amount conversions.             *)
(*                                                                         *)
(* Numbers that do not fit a machine integer of the model checker          *)
(* (wei amounts, float64 mantissas, int64 limits) are kept as decimal      *)
(* digit sequences, most significant digit first, without leading zeros;   *)
(* zero is <<0>>.  big.Int values are records [neg, mag].  A float64 or    *)
(* big.Float value is a record [neg, m, e] meaning (-1)^neg * m * 2^e with *)
(* m a digit sequence of at most the precision's bits.                     *)
(***************************************************************************)
EXTENDS Integers, Sequences, FiniteSets, TLC

(***************************************************************************)
(* Arbitrary precision naturals (math/big), as digit sequences.            *)
(***************************************************************************)
RECURSIVE Norm(_)
Norm(s) == IF Len(s) > 1 /\ s[1] = 0 THEN Norm(Tail(s)) ELSE s

Zero == <<0>>
One == <<1>>
IsZero(s) == s = Zero

RECURSIVE Zeros(_)
Zeros(k) == IF k <= 0 THEN <<>> ELSE <<0>> \o Zeros(k - 1)

\* s * 10^k
MulPow10(s, k) == IF IsZero(s) THEN Zero ELSE s \o Zeros(k)

\* digits of a small machine integer
RECURSIVE SmallDigits(_)
SmallDigits(n) == IF n < 10 THEN <<n>> ELSE Append(SmallDigits(n \div 10), n % 10)

\* s * c + carry for a small c (c * 9 + carry must fit the model's integers)
\* (every operator below tests its arguments before it recurses, so that
\* they are evaluated one operation at a time)
RECURSIVE MulAcc(_, _, _, _)
MulAcc(s, c, i, carry) ==
    IF carry = 0 /\ i = 0 THEN <<>>
    ELSE IF i = 0 THEN SmallDigits(carry)
    ELSE LET t == s[i] * c + carry
         IN  Append(MulAcc(s, c, i - 1, t \div 10), t % 10)

MulSmall(s, c) ==
    IF Len(s) = 0 \/ c = 0 THEN Zero ELSE Norm(MulAcc(s, c, Len(s), 0))
AddSmall(s, a) ==
    IF Len(s) = 0 THEN SmallDigits(a) ELSE Norm(MulAcc(s, 1, Len(s), a))

\* schoolbook division by a small c: [q |-> quotient, r |-> remainder]
RECURSIVE DivAcc(_, _, _, _, _)
DivAcc(s, c, i, rem, acc) ==
    IF rem < 0 \/ Len(acc) < 0 THEN [q |-> Zero, r |-> 0]
    ELSE IF i > Len(s) THEN [q |-> Norm(IF acc = <<>> THEN Zero ELSE acc), r |-> rem]
    ELSE LET t == rem * 10 + s[i]
         IN  DivAcc(s, c, i + 1, t % c, Append(acc, t \div c))

DivSmall(s, c) ==
    IF Len(s) = 0 THEN [q |-> Zero, r |-> 0] ELSE DivAcc(s, c, 1, 0, <<>>)

RECURSIVE LexLess(_, _, _)
LexLess(a, b, i) ==
    IF i > Len(a) THEN FALSE
    ELSE IF a[i] # b[i] THEN a[i] < b[i]
    ELSE LexLess(a, b, i + 1)

\* a < b for normalised digit sequences
Less(a, b) ==
    IF Len(a) # Len(b) THEN Len(a) < Len(b) ELSE LexLess(a, b, 1)

\* the largest chunk a shift is done in: 2^ChunkBits * 10 fits the integers
ChunkBits == 20

RECURSIVE SmallPow2(_)
SmallPow2(k) == IF k = 0 THEN 1 ELSE 2 * SmallPow2(k - 1)

\* s * 2^k
RECURSIVE Shl(_, _)
Shl(s, k) ==
    IF Len(s) = 0 \/ k <= 0 THEN s
    ELSE IF k > ChunkBits THEN Shl(MulSmall(s, SmallPow2(ChunkBits)), k - ChunkBits)
    ELSE MulSmall(s, SmallPow2(k))

\* floor(s / 2^k) and whether any one bit was shifted out:
\* [q |-> quotient, sticky |-> BOOLEAN]
RECURSIVE ShrAcc(_, _, _)
ShrAcc(s, k, sticky) ==
    IF Len(s) = 0 \/ k <= 0 THEN [q |-> s, sticky |-> sticky]
    ELSE LET c == IF k > ChunkBits THEN ChunkBits ELSE k
             d == DivSmall(s, SmallPow2(c))
         IN  ShrAcc(d.q, k - c, sticky \/ d.r # 0)

Shr(s, k) == ShrAcc(s, k, FALSE)

\* a digit sequence below the chunk size as a machine integer
RECURSIVE ToSmallAcc(_, _, _)
ToSmallAcc(s, i, acc) ==
    IF acc < 0 \/ i > Len(s) THEN acc ELSE ToSmallAcc(s, i + 1, acc * 10 + s[i])
ToSmall(s) == ToSmallAcc(s, 1, 0)

RECURSIVE SmallBitLen(_)
SmallBitLen(n) == IF n = 0 THEN 0 ELSE 1 + SmallBitLen(n \div 2)

\* big.Int.BitLen: the least i with s < 2^i
RECURSIVE BitLenAcc(_, _)
BitLenAcc(s, acc) ==
    IF Len(s) <= 6 THEN acc + SmallBitLen(ToSmall(s))
    ELSE BitLenAcc(DivSmall(s, SmallPow2(ChunkBits)).q, acc + ChunkBits)
BitLen(s) == BitLenAcc(s, 0)

Pow2Tab(i) == Shl(One, i)

\* s - 1 for s > 0
RECURSIVE SubOneRaw(_)
SubOneRaw(s) ==
    LET n == Len(s)
    IN  IF s[n] > 0 THEN SubSeq(s, 1, n - 1) \o <<s[n] - 1>>
        ELSE SubOneRaw(SubSeq(s, 1, n - 1)) \o <<9>>
SubOne(s) == Norm(SubOneRaw(s))

IsOdd(s) == s[Len(s)] % 2 = 1

(***************************************************************************)
(* Divisors: a power of ten or a small integer.                            *)
(***************************************************************************)
Pow10Div(k) == [kind |-> "pow10", k |-> k, c |-> 0]
SmallDiv(c) == [kind |-> "small", k |-> 0, c |-> c]

DivisorDigits(dv) ==
    IF dv.kind = "pow10" THEN MulPow10(One, dv.k) ELSE SmallDigits(dv.c)

\* [q |-> floor(s / dv), r |-> s mod dv], both digit sequences
DivMod(s, dv) ==
    IF dv.kind = "pow10"
    THEN IF Len(s) <= dv.k
         THEN [q |-> Zero, r |-> s]
         ELSE [q |-> SubSeq(s, 1, Len(s) - dv.k),
               r |-> Norm(SubSeq(s, Len(s) - dv.k + 1, Len(s)))]
    ELSE LET d == DivSmall(s, dv.c)
         IN  [q |-> d.q, r |-> SmallDigits(d.r)]

(***************************************************************************)
(* Binary floating point: rounding to nearest, ties to even.               *)
(***************************************************************************)
\* round q + (a fraction) to nearest even, the fraction given by its guard
\* bit (fraction >= 1/2) and sticky bit (fraction not 0 and not 1/2)
RoundEven(q, guard, sticky) ==
    IF guard /\ (sticky \/ IsOdd(q)) THEN AddSmall(q, 1) ELSE q

\* the value n / dv (n > 0) rounded to a mantissa of prec bits:
\* [m |-> mantissa, e |-> exponent], n / dv ~ m * 2^e
RoundQuo(n, dv, prec) ==
    LET est  == BitLen(n) - BitLen(DivisorDigits(dv))
        up   == IF prec + 1 - est > 0 THEN prec + 1 - est ELSE 0
        d    == DivMod(Shl(n, up), dv)
        sh   == BitLen(d.q) - prec
        \* sh >= 1: the last bit shifted out is the guard bit
        hi   == Shr(d.q, sh - 1)
        lo   == DivSmall(hi.q, 2)
        m    == RoundEven(lo.q, lo.r = 1, hi.sticky \/ ~IsZero(d.r))
    IN  IF m = Pow2Tab(prec)
        THEN [m |-> Pow2Tab(prec - 1), e |-> sh - up + 1]
        ELSE [m |-> m, e |-> sh - up]

\* an integer n > 0 as a float of prec bits (exact when it fits)
RoundInt(n, prec) ==
    IF BitLen(n) <= prec THEN [m |-> n, e |-> 0]
    ELSE RoundQuo(n, SmallDiv(1), prec)

\* m * 2^e rounded to an integer multiple of 10^-digits, ties to even,
\* returned as the integer value * 10^digits (strconv 'f' formatting)
RoundDecimal(m, e, digits) ==
    LET scaled == MulPow10(m, digits)
    IN  IF e >= 0 THEN Shl(scaled, e)
        ELSE LET hi == Shr(scaled, (-e) - 1)
                 lo == DivSmall(hi.q, 2)
             IN  RoundEven(lo.q, lo.r = 1, hi.sticky)

\* floor(m * 2^e)
TruncFloat(m, e) == IF e >= 0 THEN Shl(m, e) ELSE Shr(m, -e).q

(***************************************************************************)
(* Texts and values.  A decimal text "-12.340" is                          *)
(* [kind |-> "num", neg |-> TRUE, int |-> <<1,2>>, frac |-> <<3,4,0>>]; a  *)
(* text without fractional digits has no decimal point.  "+Inf" is the     *)
(* text of kind "inf"; kind "panic" stands for a run time panic in place   *)
(* of a text.                                                              *)
(***************************************************************************)
NumText(neg, int, frac) == [kind |-> "num", neg |-> neg, int |-> int, frac |-> frac]
InfText == [kind |-> "inf", neg |-> FALSE, int |-> Zero, frac |-> <<>>]
PanicText == [kind |-> "panic", neg |-> FALSE, int |-> Zero, frac |-> <<>>]
\* no text produced yet
NoText == [kind |-> "none", neg |-> FALSE, int |-> Zero, frac |-> <<>>]

\* the decimal text of value / 10^digits with exactly `digits` fractional digits
FixedText(neg, value, digits) ==
    LET padded == Zeros(digits + 1 - Len(value)) \o value
        n      == Len(padded)
    IN  NumText(neg, SubSeq(padded, 1, n - digits), SubSeq(padded, n - digits + 1, n))

BigInt(neg, mag) == [neg |-> neg /\ ~IsZero(mag), mag |-> mag]
Float(neg, m, e) == [kind |-> "fin", neg |-> neg, m |-> m, e |-> e]
FloatZero == Float(FALSE, Zero, 0)
FloatInf == [kind |-> "inf", neg |-> FALSE, m |-> Zero, e |-> 0]

\* Go's integer ^ (bitwise exclusive or) on non-negative operands
RECURSIVE Xor(_, _)
Xor(a, b) ==
    IF a = 0 /\ b = 0 THEN 0
    ELSE (((a % 2) + (b % 2)) % 2) + 2 * Xor(a \div 2, b \div 2)

Max(a, b) == IF a >= b THEN a ELSE b

\* decimals of the native coin: formatBigIntToDecimal's special case
EtherDecimals == 18
\* big.Float precision given to a value set from a big.Int of fewer bits
BigFloatMinPrec == 64
\* float64 mantissa width
Float64Prec == 53

\* func formatBigIntToDecimal(amount *big.Int, decimals int) string
\* (amount >= 0, decimals >= 0)
formatBigIntToDecimal(amount, decimals) ==
    LET xored   == Xor(10, decimals)
        zeroDiv == decimals # EtherDecimals /\ xored = 0
        divisor == IF decimals # EtherDecimals
                   THEN SmallDiv(xored) ELSE Pow10Div(EtherDecimals)
        prec    == Max(BigFloatMinPrec, BitLen(amount))
    IN  IF zeroDiv THEN (IF IsZero(amount) THEN PanicText ELSE InfText)
        ELSE IF IsZero(amount) THEN FixedText(FALSE, Zero, decimals)
        ELSE LET q == RoundQuo(amount, divisor, prec)
             IN  FixedText(FALSE, RoundDecimal(q.m, q.e, decimals), decimals)

\* strconv.ParseFloat(text, 64), as the command line's Float64Flag applies it
ParseFloat(text) ==
    IF text.kind = "inf" THEN FloatInf
    ELSE LET n == Norm(text.int \o text.frac)
         IN  IF IsZero(n) THEN FloatZero
             ELSE LET q == RoundQuo(n, Pow10Div(Len(text.frac)), Float64Prec)
                  IN  Float(text.neg, q.m, q.e)

\* the float64 product f * 10^d (10^d is exact in a float64 for d <= 22)
MulPow10Float(f, d) ==
    IF f.kind = "inf" THEN FloatInf
    ELSE IF IsZero(f.m) THEN FloatZero
    ELSE LET r == RoundInt(MulPow10(f.m, d), Float64Prec)
         IN  Float(f.neg, r.m, r.e + f.e)

\* digits fmt's %f prints after the decimal point
PercentFDigits == 6

\* fmt.Sprintf("%f", f)
SprintfF(f) ==
    IF f.kind = "inf" THEN InfText
    ELSE FixedText(f.neg, RoundDecimal(f.m, f.e, PercentFDigits), PercentFDigits)

\* the receiver after (*big.Int).SetString(text, 10) on a text with a decimal
\* point or without digits: the call fails, and the implementation leaves the
\* sign and digits scanned before the point in the receiver
SetStringReceiver(text) ==
    IF text.kind = "inf" THEN BigInt(FALSE, Zero)
    ELSE BigInt(text.neg, text.int)

Int64Bits == 63
MinInt64 == BigInt(TRUE, Pow2Tab(Int64Bits))
MaxInt64 == BigInt(FALSE, SubOne(Pow2Tab(Int64Bits)))

\* int64(f): the set of results the conversion can give.  Out of range the
\* result is implementation-dependent: the minimum int64 (amd64) or the
\* saturated value (arm64).
Int64OfFloat(f) ==
    IF f.kind = "inf" THEN {MinInt64, MaxInt64}
    ELSE LET mag == TruncFloat(f.m, f.e)
         IN  IF Less(mag, Pow2Tab(Int64Bits)) \/ (f.neg /\ mag = Pow2Tab(Int64Bits))
             THEN {BigInt(f.neg, mag)}
             ELSE IF f.neg THEN {MinInt64} ELSE {MinInt64, MaxInt64}

\* transferEth's conversion: big.NewInt(int64(amount * 1e18))
EthToWei(amount) == Int64OfFloat(MulPow10Float(amount, EtherDecimals))

\* transferToken's conversion:
\* amountInWei.SetString(fmt.Sprintf("%f", amount*math.Pow10(int(decimal))), 10)
TokenToBaseUnits(amount, decimal) ==
    SetStringReceiver(SprintfF(MulPow10Float(amount, decimal)))

(***************************************************************************)
(* The program's constants and its environment.                            *)
(***************************************************************************)
EthGasLimit == 21000
TokenGasLimit == 60000
ChainId == 1
DefaultDecimal == 6

\* the invocations that may run side by side (one process each)
Procs == {1, 2}

\* number of accounts in the keystore directory
NumAccounts == 2
AccountAddr(i) == <<"account", i>>
\* keyStore.Accounts(): indices 0 .. NumAccounts - 1
Accounts == [i \in 0..(NumAccounts - 1) |-> AccountAddr(i)]
Addresses == {AccountAddr(i) : i \in 0..(NumAccounts - 1)}

ZeroAddress == <<"address", "0x0000000000000000000000000000000000000000">>

WellFormedHex == {"0x00000000000000000000000000000000000000b2",
                  "0x00000000000000000000000000000000000000c3"}
ToInputs == {"0x00000000000000000000000000000000000000b2", "0xRecipientAddress"}

\* common.HexToAddress: never fails; the hex digits decoded before the first
\* bad character are left-padded to 20 bytes ("0xRecipientAddress" decodes
\* no byte at all)
HexToAddress(str) == IF str \in WellFormedHex THEN <<"address", str>> ELSE ZeroAddress

Commands == {"check-balance", "transfer-eth", "transfer-token"}
Transfers == {"transfer-eth", "transfer-token"}

\* amounts given on the command line
Amount01 == NumText(FALSE, <<0>>, <<1>>)
Amount007 == NumText(FALSE, <<0>>, <<0, 7>>)
Amount1 == NumText(FALSE, <<1>>, <<>>)
Amount10 == NumText(FALSE, <<1, 0>>, <<>>)
AmountMinus1 == NumText(TRUE, <<1>>, <<>>)
AmountInputs == {Amount01, Amount007, Amount1, Amount10, AmountMinus1}
DecimalInputs == {DefaultDecimal, EtherDecimals}

\* what the node may answer
TwoEther == MulPow10(<<2>>, EtherDecimals)
FiveTokens == MulPow10(<<5>>, DefaultDecimal)
NodeBalances == {Zero, TwoEther}
NodeCallResults == {FiveTokens, <<7>>}
NodeGasPrices == {20, 21}
NodeNonces == {0, 3}

VARIABLES
    cmd,          \* p -> the command the invocation runs ("none": no invocation)
    args,         \* p -> its flags
    secretOk,     \* whether keystorePassword decrypts the stored keys
    pc,           \* p -> the statement the handler is at
    unlocked,     \* p -> addresses unlocked in the invocation's KeyStore object
    pendingNonce, \* node: address -> pending nonce
    nodeLog,      \* node: the broadcasts received, in order, with its answers
    ops,          \* p -> the node and key store calls attempted, in order
    value,        \* p -> value / amountInWei
    nonce,        \* p -> nonce
    gasPrice,     \* p -> gasPrice
    txData,       \* p -> txData
    txs,          \* p -> the unsigned transactions built (tx)
    signedTxs,    \* p -> the signed transactions produced (signedTx)
    sent,         \* p -> the payloads handed to SendTransaction
    result,       \* p -> the handler's return value
    out,          \* p -> what the invocation printed
    stages,       \* p -> the pipeline states passed, in order
    cvStage,      \* conversion check: "idle", "input", "formatted", "back"
    cvAmount,     \* conversion check: the base-unit amount
    cvDecimals,   \* conversion check: the decimals count
    cvText,       \* conversion check: the formatter's text
    cvBack        \* conversion check: the text converted back to base units

inputs == <<cmd, args, secretOk>>
node == <<pendingNonce, nodeLog>>
locals == <<value, nonce, gasPrice, txData>>
built == <<txs, signedTxs, sent>>
conv == <<cvStage, cvAmount, cvDecimals, cvText, cvBack>>
vars == <<cmd, args, secretOk, pc, unlocked, pendingNonce, nodeLog, ops, value,
          nonce, gasPrice, txData, txs, signedTxs, sent, result, out, stages,
          cvStage, cvAmount, cvDecimals, cvText, cvBack>>

Running == [status |-> "running", msg |-> "", cause |-> ""]
Ok == [status |-> "ok", msg |-> "", cause |-> ""]
\* fmt.Errorf(msg + ": %w", cause)
Errorf(msg, cause) == [status |-> "failed", msg |-> msg, cause |-> cause]

NoArgs == [index |-> 0, to |-> "", amount |-> Amount1, decimal |-> DefaultDecimal]
ArgsOf(c) ==
    IF c = "check-balance"
    THEN {[index |-> i, to |-> "", amount |-> Amount1, decimal |-> d] :
            i \in (-1)..NumAccounts, d \in DecimalInputs}
    ELSE IF c = "transfer-eth"
    THEN {[index |-> i, to |-> t, amount |-> a, decimal |-> DefaultDecimal] :
            i \in (-1)..NumAccounts, t \in ToInputs, a \in AmountInputs}
    ELSE IF c = "transfer-token"
    THEN {[index |-> i, to |-> t, amount |-> a, decimal |-> d] :
            i \in (-1)..NumAccounts, t \in ToInputs, a \in AmountInputs,
            d \in DecimalInputs}
    ELSE {NoArgs}

\* the first statement of each handler that the model steps through
FirstPc(c) ==
    IF c = "check-balance" THEN "index"
    ELSE IF c \in Transfers THEN "dial"
    ELSE "done"

InitLocals ==
    /\ pc = [p \in Procs |-> FirstPc(cmd[p])]
    /\ unlocked = [p \in Procs |-> {}]
    /\ nodeLog = <<>>
    /\ ops = [p \in Procs |-> <<>>]
    /\ value = [p \in Procs |-> BigInt(FALSE, Zero)]
    /\ nonce = [p \in Procs |-> 0]
    /\ gasPrice = [p \in Procs |-> 0]
    /\ txData = [p \in Procs |-> <<>>]
    /\ txs = [p \in Procs |-> <<>>]
    /\ signedTxs = [p \in Procs |-> <<>>]
    /\ sent = [p \in Procs |-> <<>>]
    /\ result = [p \in Procs |-> Running]
    /\ out = [p \in Procs |-> <<>>]
    /\ stages = [p \in Procs |-> <<>>]

ConvIdle ==
    /\ cvStage = "idle"
    /\ cvAmount = Zero
    /\ cvDecimals = 0
    /\ cvText = NoText
    /\ cvBack = BigInt(FALSE, Zero)

\* one invocation of any command, with any flags
Init ==
    /\ \E c \in Commands : \E a \in ArgsOf(c) :
         /\ cmd = [p \in Procs |-> IF p = 1 THEN c ELSE "none"]
         /\ args = [p \in Procs |-> IF p = 1 THEN a ELSE NoArgs]
    /\ secretOk \in BOOLEAN
    /\ \E n \in NodeNonces : pendingNonce = [a \in Addresses |-> n]
    /\ InitLocals
    /\ ConvIdle

(***************************************************************************)
(* The handlers, one action per statement that talks to the key store or   *)
(* the node.                                                               *)
(***************************************************************************)
Account(p) == Accounts[args[p].index]
TokenAddressFlag == "0x00000000000000000000000000000000000000c3"

\* a handler returns r
Return(p, r) ==
    /\ result' = [result EXCEPT ![p] = r]
    /\ pc' = [pc EXCEPT ![p] = "done"]
    /\ stages' = [stages EXCEPT ![p] =
                    IF r.status = "failed" THEN Append(@, "Failed") ELSE @]

Goto(p, label) ==
    /\ pc' = [pc EXCEPT ![p] = label]
    /\ UNCHANGED <<result, stages>>

\* the invocation calls the node or the key store
Call(p, name) == ops' = [ops EXCEPT ![p] = Append(@, name)]
NodeOpNames == {"dial", "getBalance", "call", "getPendingNonce", "suggestGasPrice",
                "sendRawTransaction"}

\* ethclient.Dial(ethNodeURL)
Dial(p) ==
    /\ pc[p] = "dial"
    /\ Call(p, "dial")
    /\ \E ok \in BOOLEAN :
         IF ok
         THEN Goto(p, IF cmd[p] = "check-balance" THEN "balance" ELSE "index")
         ELSE Return(p, Errorf("failed to connect to the Ethereum client", "dial error"))
    /\ UNCHANGED <<conv, inputs, node, locals, built, unlocked, out>>

\* if index < 0 || index >= len(accounts)
CheckIndex(p) ==
    /\ pc[p] = "index"
    /\ IF args[p].index < 0 \/ args[p].index >= NumAccounts
       THEN Return(p, Errorf(IF cmd[p] = "check-balance"
                             THEN "invalid account index"
                             ELSE "invalid sender account index", ""))
       ELSE Goto(p, IF cmd[p] = "check-balance" THEN "dial" ELSE "unlock")
    /\ UNCHANGED <<conv, inputs, node, locals, built, unlocked, out, ops>>

\* client.BalanceAt and the first Printf of checkBalance
BalanceAt(p) ==
    /\ pc[p] = "balance"
    /\ Call(p, "getBalance")
    /\ \E ok \in BOOLEAN :
         IF ok
         THEN \E ethBalance \in NodeBalances :
                /\ out' = [out EXCEPT ![p] = Append(@,
                             <<"ETH Balance", Account(p),
                               formatBigIntToDecimal(ethBalance, EtherDecimals)>>)]
                /\ Goto(p, "token")
         ELSE /\ Return(p, Errorf("failed to get ETH balance", "rpc error"))
              /\ UNCHANGED out
    /\ UNCHANGED <<conv, inputs, node, locals, built, unlocked>>

\* getTokenBalance (Token.ERCToken, Token.BalanceOf) and the second Printf
TokenBalance(p) ==
    /\ pc[p] = "token"
    /\ \E outcome \in {"abi error", "call error", "ok"} :
         IF outcome = "abi error"
         THEN /\ Return(p, Errorf("failed to get token balance", "failed to load token ABI"))
              /\ UNCHANGED <<out, ops>>
         ELSE IF outcome = "call error"
         THEN /\ Call(p, "call")
              /\ Return(p, Errorf("failed to get token balance", "failed to call balanceOf"))
              /\ UNCHANGED out
         ELSE \E tokenBalance \in NodeCallResults :
                /\ Call(p, "call")
                /\ out' = [out EXCEPT ![p] = Append(@,
                             <<"Token Balance", Account(p),
                               formatBigIntToDecimal(tokenBalance, args[p].decimal)>>)]
                /\ Return(p, Ok)
    /\ UNCHANGED <<conv, inputs, node, locals, built, unlocked>>

\* Unlock with its error dropped: the handler goes on with a locked account
UnlockIgnoringError(p) ==
    /\ pc[p] = "unlock"
    /\ Call(p, "unlock")
    /\ unlocked' = [unlocked EXCEPT ![p] = IF secretOk THEN @ \cup {Account(p)} ELSE @]
    /\ pc' = [pc EXCEPT ![p] = IF cmd[p] = "transfer-eth" THEN "nonce" ELSE "load"]
    /\ stages' = [stages EXCEPT ![p] = IF secretOk THEN Append(@, "Unlocked") ELSE @]
    /\ UNCHANGED result
    /\ UNCHANGED <<conv, inputs, node, locals, built, out>>

\* keyStore.Unlock(account, keystorePassword)
Unlock(p) ==
    /\ pc[p] = "unlock"
    /\ Call(p, "unlock")
    /\ IF secretOk
       THEN /\ unlocked' = [unlocked EXCEPT ![p] = @ \cup {Account(p)}]
            /\ pc' = [pc EXCEPT ![p] = IF cmd[p] = "transfer-eth" THEN "nonce" ELSE "load"]
            /\ stages' = [stages EXCEPT ![p] = Append(@, "Unlocked")]
            /\ UNCHANGED result
       ELSE /\ Return(p, Errorf("failed to unlock account", "could not decrypt key with given password"))
            /\ UNCHANGED unlocked
    /\ UNCHANGED <<conv, inputs, node, locals, built, out>>

\* Token.ERCToken(tokenAddress, decimal, client) in transferToken
LoadToken(p) ==
    /\ pc[p] = "load"
    /\ \E ok \in BOOLEAN :
         IF ok THEN Goto(p, "nonce")
         ELSE Return(p, Errorf("failed to create token contract", "failed to load token ABI"))
    /\ UNCHANGED <<conv, inputs, node, locals, built, unlocked, out, ops>>

\* the amount conversion and client.PendingNonceAt
PendingNonceAt(p) ==
    /\ pc[p] = "nonce"
    /\ \E v \in (IF cmd[p] = "transfer-eth"
                 THEN EthToWei(ParseFloat(args[p].amount))
                 ELSE {TokenToBaseUnits(ParseFloat(args[p].amount), args[p].decimal)}) :
         value' = [value EXCEPT ![p] = v]
    /\ Call(p, "getPendingNonce")
    /\ \E ok \in BOOLEAN :
         IF ok
         THEN /\ nonce' = [nonce EXCEPT ![p] = pendingNonce[Account(p)]]
              /\ Goto(p, "gas")
         ELSE /\ Return(p, Errorf("failed to get nonce", "rpc error"))
              /\ UNCHANGED nonce
    /\ UNCHANGED <<conv, inputs, node, gasPrice, txData, built, unlocked, out>>

\* client.SuggestGasPrice
SuggestGasPrice(p) ==
    /\ pc[p] = "gas"
    /\ Call(p, "suggestGasPrice")
    /\ \E ok \in BOOLEAN :
         IF ok
         THEN \E g \in NodeGasPrices :
                /\ gasPrice' = [gasPrice EXCEPT ![p] = g]
                /\ Goto(p, IF cmd[p] = "transfer-eth" THEN "build" ELSE "pack")
         ELSE /\ Return(p, Errorf("failed to get gas price", "rpc error"))
              /\ UNCHANGED gasPrice
    /\ UNCHANGED <<conv, inputs, node, value, nonce, txData, built, unlocked, out>>

\* tokenContract.ABI.Pack("transfer", common.HexToAddress(toAddress), amountInWei):
\* fails when the interface description has no matching method, and in the
\* library versions that refuse a negative value for an unsigned parameter
PackTransfer(p) ==
    /\ pc[p] = "pack"
    /\ \E ok \in BOOLEAN :
         IF ok
         THEN /\ txData' = [txData EXCEPT ![p] =
                              <<"transfer", HexToAddress(args[p].to), value[p]>>]
              /\ Goto(p, "build")
         ELSE /\ Return(p, Errorf("failed to pack transfer data", "abi error"))
              /\ UNCHANGED txData
    /\ UNCHANGED <<conv, inputs, node, value, nonce, gasPrice, built, unlocked, out, ops>>

\* types.NewTransaction(nonce, to, amount, gasLimit, gasPrice, data)
NewTransaction(p) ==
    IF cmd[p] = "transfer-eth"
    THEN [nonce |-> nonce[p], to |-> HexToAddress(args[p].to), value |-> value[p],
          gasLimit |-> EthGasLimit, gasPrice |-> gasPrice[p], data |-> <<>>]
    ELSE [nonce |-> nonce[p], to |-> HexToAddress(TokenAddressFlag),
          value |-> BigInt(FALSE, Zero),
          gasLimit |-> TokenGasLimit, gasPrice |-> gasPrice[p], data |-> txData[p]]

BuildTx(p) ==
    /\ pc[p] = "build"
    /\ txs' = [txs EXCEPT ![p] = Append(@, NewTransaction(p))]
    /\ pc' = [pc EXCEPT ![p] = "sign"]
    /\ stages' = [stages EXCEPT ![p] = Append(@, "Built")]
    /\ UNCHANGED <<conv, inputs, node, locals, signedTxs, sent, unlocked, out, ops, result>>

Last(seq) == seq[Len(seq)]

\* keyStore.SignTx(account, tx, &chainId): refuses a locked account
SignTx(p) ==
    /\ pc[p] = "sign"
    /\ Call(p, "signTx")
    /\ \E ok \in BOOLEAN :
         IF ok /\ Account(p) \in unlocked[p]
         THEN /\ signedTxs' = [signedTxs EXCEPT ![p] = Append(@,
                    [tx |-> Last(txs[p]), from |-> Account(p), chainId |-> ChainId])]
              /\ pc' = [pc EXCEPT ![p] = "send"]
              /\ stages' = [stages EXCEPT ![p] = Append(@, "Signed")]
              /\ UNCHANGED result
         ELSE /\ Return(p, Errorf("failed to sign transaction", "signing error"))
              /\ UNCHANGED signedTxs
    /\ UNCHANGED <<conv, inputs, node, locals, txs, sent, unlocked, out>>

\* signedTx.Hash()
Hash(stx) == <<"hash", stx>>

\* the node's answers to a broadcast: a transaction whose nonce is not the
\* sender's pending nonce is a nonce conflict; any other may be accepted or
\* rejected
NodeVerdicts(stx) ==
    IF stx.tx.nonce # pendingNonce[stx.from]
    THEN {"nonce conflict"}
    ELSE {"accepted", "insufficient funds"}

\* AfterSend with the error of SendTransaction dropped: the hash is printed
\* whatever the node answered
AfterSendReportsAnyway(p, stx, verdict) ==
    /\ out' = [out EXCEPT ![p] = Append(@, <<"Transaction sent", Hash(stx)>>)]
    /\ result' = [result EXCEPT ![p] = Ok]
    /\ pc' = [pc EXCEPT ![p] = "done"]
    /\ stages' = [stages EXCEPT ![p] = @ \o <<"Broadcast", "Confirmed">>]

\* AfterSend with a retry: a rejected transaction is rebuilt from a new nonce
AfterSendRetries(p, stx, verdict) ==
    IF verdict = "accepted"
    THEN /\ out' = [out EXCEPT ![p] = Append(@, <<"Transaction sent", Hash(stx)>>)]
         /\ result' = [result EXCEPT ![p] = Ok]
         /\ pc' = [pc EXCEPT ![p] = "done"]
         /\ stages' = [stages EXCEPT ![p] = @ \o <<"Broadcast", "Confirmed">>]
    ELSE /\ pc' = [pc EXCEPT ![p] = "nonce"]
         /\ UNCHANGED <<out, result, stages>>

\* what the handler does with the answer of client.SendTransaction
AfterSend(p, stx, verdict) ==
    IF verdict = "accepted"
    THEN /\ out' = [out EXCEPT ![p] = Append(@, <<"Transaction sent", Hash(stx)>>)]
         /\ result' = [result EXCEPT ![p] = Ok]
         /\ pc' = [pc EXCEPT ![p] = "done"]
         /\ stages' = [stages EXCEPT ![p] = @ \o <<"Broadcast", "Confirmed">>]
    ELSE /\ result' = [result EXCEPT ![p] = Errorf("failed to send transaction", verdict)]
         /\ pc' = [pc EXCEPT ![p] = "done"]
         /\ stages' = [stages EXCEPT ![p] = @ \o <<"Broadcast", "Failed">>]
         /\ UNCHANGED out

\* client.SendTransaction(context.Background(), signedTx) and the last Printf
SendTransaction(p) ==
    /\ pc[p] = "send"
    /\ Call(p, "sendRawTransaction")
    /\ LET stx == Last(signedTxs[p])
       IN  /\ sent' = [sent EXCEPT ![p] = Append(@, stx)]
           /\ \E verdict \in NodeVerdicts(stx) :
                /\ nodeLog' = Append(nodeLog, [by |-> p, stx |-> stx, verdict |-> verdict])
                /\ pendingNonce' = IF verdict = "accepted"
                                   THEN [pendingNonce EXCEPT ![stx.from] = @ + 1]
                                   ELSE pendingNonce
                /\ AfterSend(p, stx, verdict)
    /\ UNCHANGED <<conv, inputs, locals, txs, signedTxs, unlocked>>

Next ==
    \E p \in Procs :
        \/ Dial(p)
        \/ CheckIndex(p)
        \/ BalanceAt(p)
        \/ TokenBalance(p)
        \/ Unlock(p)
        \/ LoadToken(p)
        \/ PendingNonceAt(p)
        \/ SuggestGasPrice(p)
        \/ PackTransfer(p)
        \/ BuildTx(p)
        \/ SignTx(p)
        \/ SendTransaction(p)

Spec == Init /\ [][Next]_vars

\* two invocations side by side: a transfer from account 0, and any command
InitConc ==
    /\ \E c1 \in Transfers, c2 \in Commands, i2 \in {-1, 0}, d \in DecimalInputs :
         /\ cmd = [p \in Procs |-> IF p = 1 THEN c1 ELSE c2]
         /\ args = [p \in Procs |->
                      [index |-> IF p = 1 THEN 0 ELSE i2,
                       to |-> "0x00000000000000000000000000000000000000b2",
                       amount |-> Amount01, decimal |-> d]]
    /\ secretOk \in BOOLEAN
    /\ \E n \in NodeNonces : pendingNonce = [a \in Addresses |-> n]
    /\ InitLocals
    /\ ConvIdle

SpecConc == InitConc /\ [][Next]_vars

(***************************************************************************)
(* The conversions on their own: a base-unit amount is formatted, and the  *)
(* text is converted back the way transferToken converts its amount flag.  *)
(***************************************************************************)
MaxAmount == 12
MaxDecimals == 9
RECURSIVE Repeat(_, _)
Repeat(d, k) == IF k <= 0 THEN <<>> ELSE <<d>> \o Repeat(d, k - 1)
ConvAmounts ==
    {SmallDigits(n) : n \in 0..MaxAmount}
        \cup {FiveTokens, TwoEther, MulPow10(One, EtherDecimals),
              Repeat(1, EtherDecimals), <<1>> \o Repeat(7, EtherDecimals)}
ConvDecimals == (0..MaxDecimals) \cup {EtherDecimals}

InitConv ==
    /\ cmd = [p \in Procs |-> "none"]
    /\ args = [p \in Procs |-> NoArgs]
    /\ secretOk = TRUE
    /\ pendingNonce = [a \in Addresses |-> 0]
    /\ InitLocals
    /\ cvStage = "input"
    /\ cvAmount \in ConvAmounts
    /\ cvDecimals \in ConvDecimals
    /\ cvText = NoText
    /\ cvBack = BigInt(FALSE, Zero)

\* the text check-balance prints for the amount
Format ==
    /\ cvStage = "input"
    /\ cvText' = formatBigIntToDecimal(cvAmount, cvDecimals)
    /\ cvStage' = "formatted"
    /\ UNCHANGED <<cvAmount, cvDecimals, cvBack>>
    /\ UNCHANGED <<inputs, node, locals, built, unlocked, out, ops, pc, result, stages>>

\* the text given back as an amount flag (a panic printed no text)
ConvertBack ==
    /\ cvStage = "formatted"
    /\ cvText.kind # "panic"
    /\ cvBack' = TokenToBaseUnits(ParseFloat(cvText), cvDecimals)
    /\ cvStage' = "back"
    /\ UNCHANGED <<cvAmount, cvDecimals, cvText>>
    /\ UNCHANGED <<inputs, node, locals, built, unlocked, out, ops, pc, result, stages>>

NextConv == Format \/ ConvertBack

SpecConv == InitConv /\ [][NextConv]_vars

(***************************************************************************)
(* Properties.                                                             *)
(***************************************************************************)
InvalidIndex(p) == args[p].index < 0 \/ args[p].index >= NumAccounts
Called(p, name) == \E i \in DOMAIN ops[p] : ops[p][i] = name
CountCalls(p, name) == Cardinality({i \in DOMAIN ops[p] : ops[p][i] = name})
NodeCalls(p) == {i \in DOMAIN ops[p] : ops[p][i] \in NodeOpNames}
Failed(p) == pc[p] = "done" /\ result[p].status = "failed"
ReportedHashes(p) ==
    {out[p][i][2] : i \in {j \in DOMAIN out[p] : out[p][j][1] = "Transaction sent"}}
AcceptedBy(p) ==
    {i \in DOMAIN nodeLog : nodeLog[i].by = p /\ nodeLog[i].verdict = "accepted"}
RejectedBy(p) ==
    {i \in DOMAIN nodeLog : nodeLog[i].by = p /\ nodeLog[i].verdict # "accepted"}
IsPrefix(a, b) == Len(a) <= Len(b) /\ a = SubSeq(b, 1, Len(a))

\* C1: in every command, an account index that is negative or >= the number
\* of accounts makes the command fail, and no node operation (dial included)
\* has been attempted before that failure.
C1_NoNodeCallOnInvalidIndex ==
    \A p \in Procs :
        (cmd[p] \in Commands /\ InvalidIndex(p)) =>
            /\ NodeCalls(p) = {}
            /\ (pc[p] = "done" => result[p].status = "failed")

\* C2: in transfer-eth and transfer-token, when unlocking the sender with the
\* configured secret fails, the command has ended in failure and neither the
\* signing step nor the broadcast step is ever executed.
UnlockFailed(p) == cmd[p] \in Transfers /\ Called(p, "unlock") /\ ~secretOk
C2_UnlockFailureStopsPipeline ==
    \A p \in Procs :
        UnlockFailed(p) =>
            /\ Failed(p)
            /\ result[p].msg = "failed to unlock account"
            /\ ~Called(p, "signTx")
            /\ ~Called(p, "sendRawTransaction")
            /\ signedTxs[p] = <<>> /\ sent[p] = <<>>

C2_Witness ==
    \E p \in Procs : UnlockFailed(p) /\ Failed(p) /\ ~InvalidIndex(p)

\* C3: for every base-unit amount n >= 0 and decimals count d the formatter
\* returns the decimal rendering of n / 10^d with exactly d digits after the
\* point (5000000 at 6 decimals is "5.000000").
C3_FormatterExact ==
    cvStage \in {"formatted", "back"} => cvText = FixedText(FALSE, cvAmount, cvDecimals)

\* the exact base units of a decimal text at d decimals (its fractional digits
\* are at most d)
ExactBaseUnits(text, d) ==
    BigInt(text.neg, Norm(text.int \o text.frac \o Zeros(d - Len(text.frac))))

\* C4: a successful transfer-eth builds exactly one unsigned transaction, with
\* the pending nonce and the gas price the node returned, gas limit 21000,
\* empty call-data and value amount * 10^18, and broadcasts exactly the
\* signed transaction made from it.
C4_EthTransferTransaction ==
    \A p \in Procs :
        (cmd[p] = "transfer-eth" /\ pc[p] = "done" /\ result[p].status = "ok") =>
            /\ Len(txs[p]) = 1
            /\ txs[p][1].nonce = nonce[p]
            /\ txs[p][1].gasPrice = gasPrice[p]
            /\ txs[p][1].gasLimit = 21000
            /\ txs[p][1].data = <<>>
            /\ txs[p][1].value = ExactBaseUnits(args[p].amount, 18)
            /\ sent[p] = <<[tx |-> txs[p][1], from |-> Account(p), chainId |-> 1]>>
            /\ signedTxs[p] = sent[p]

\* C5: for every n >= 0 and d, the formatter's text for (n, d) converted back
\* to base units at d decimals, as the transfer commands convert an amount,
\* is n again.
C5_RoundTrip ==
    cvStage = "back" => cvBack = BigInt(FALSE, cvAmount)

\* C6: transfer-token given a recipient that is not a well-formed 20-byte
\* address, or a negative amount, ends in failure, and no transaction is
\* signed or broadcast for it.
BadTokenInput(p) ==
    cmd[p] = "transfer-token" /\ (args[p].to \notin WellFormedHex \/ args[p].amount.neg)
C6_BadTokenInputRejected ==
    \A p \in Procs :
        BadTokenInput(p) =>
            /\ signedTxs[p] = <<>>
            /\ sent[p] = <<>>
            /\ (pc[p] = "done" => result[p].status = "failed")

\* C7: a transfer invocation broadcasts at most once; a failed broadcast ends
\* the invocation in failure with the node's error, nothing (no nonce lookup,
\* signing or broadcast) is called after it, and a transaction hash is printed
\* only for a broadcast the node accepted.
C7_BroadcastOnceNoRetry ==
    \A p \in Procs :
        /\ CountCalls(p, "sendRawTransaction") <= 1
        /\ Len(sent[p]) = CountCalls(p, "sendRawTransaction")
        /\ (Called(p, "sendRawTransaction") =>
                /\ Last(ops[p]) = "sendRawTransaction"
                /\ pc[p] = "done")
        /\ \A i \in RejectedBy(p) :
                /\ result[p] = Errorf("failed to send transaction", nodeLog[i].verdict)
                /\ ReportedHashes(p) = {}
        /\ \A h \in ReportedHashes(p) :
                \E i \in AcceptedBy(p) : h = Hash(nodeLog[i].stx)

C7_Witness ==
    \E p \in Procs :
        /\ cmd[p] \in Transfers
        /\ RejectedBy(p) # {}
        /\ result[p] = Errorf("failed to send transaction", "insufficient funds")
        /\ pc[p] = "done"

\* the states of st are a prefix of order, or a proper prefix followed by
\* "Failed"
FollowsOrder(st, order) ==
    \/ IsPrefix(st, order)
    \/ /\ Len(st) >= 1
       /\ Last(st) = "Failed"
       /\ Len(st) - 1 < Len(order)
       /\ IsPrefix(SubSeq(st, 1, Len(st) - 1), order)

\* C8: every transfer passes Built, Unlocked, Signed, Broadcast,
\* Confirmed in this order (the transaction is built before the identity is
\* unlocked), or goes to Failed from any of them.
C8_BuiltBeforeUnlocked ==
    \A p \in Procs :
        cmd[p] \in Transfers =>
            FollowsOrder(stages[p], <<"Built", "Unlocked", "Signed", "Broadcast", "Confirmed">>)

\* C9: in every terminal state of a transfer invocation the identity that was
\* unlocked for it is locked again in the key store.
C9_LockedAtEnd ==
    \A p \in Procs :
        (cmd[p] \in Transfers /\ pc[p] = "done") => unlocked[p] = {}

\* the successful nonce lookups of p and q gave the same pending nonce of the
\* same sender
NonceRead(p) ==
    /\ cmd[p] \in Transfers
    /\ Called(p, "getPendingNonce")
    /\ result[p].msg # "failed to get nonce"
SameNonceRead(p, q) ==
    /\ p # q
    /\ NonceRead(p) /\ NonceRead(q)
    /\ Account(p) = Account(q)
    /\ nonce[p] = nonce[q]

\* C10: when two concurrent transfers of one sender have read the same pending
\* nonce, at most one of their broadcasts is accepted; the other invocation
\* ends in failure without reporting a hash, and a broadcast of it that
\* reaches the node after the accepted one is rejected as a nonce conflict,
\* which is the error the invocation ends with.
C10_NonceRace ==
    \A p, q \in Procs :
        SameNonceRead(p, q) =>
            /\ ~(AcceptedBy(p) # {} /\ AcceptedBy(q) # {})
            /\ (AcceptedBy(p) # {} /\ pc[q] = "done" =>
                    result[q].status = "failed" /\ ReportedHashes(q) = {})
            /\ \A i \in AcceptedBy(p) : \A j \in DOMAIN nodeLog :
                    (j > i /\ nodeLog[j].by = q) =>
                        /\ nodeLog[j].verdict = "nonce conflict"
                        /\ result[q] = Errorf("failed to send transaction", "nonce conflict")

C10_Witness ==
    \E p, q \in Procs :
        /\ SameNonceRead(p, q)
        /\ AcceptedBy(p) # {}
        /\ ReportedHashes(p) # {}
        /\ RejectedBy(q) # {}
        /\ result[q] = Errorf("failed to send transaction", "nonce conflict")

====
